---- MODULE Spec2Model ----
(***************************************************************************)
(* Pull / push pipeline of the hrflow connectors:                          *)
(*   - the SmartRecruiters paginators (warehouse.read, a generator, and    *)
(*     PullJobsAction.pull, get_page chained with map(get_full_job)),      *)
(*   - the SmartRecruiters bulk writer (warehouse.write),                  *)
(*   - the BreezyHR upsert-by-lookup push (PushProfileAction.push),        *)
(*   - the Taleez single-page pull (PullJobsAction.pull).                  *)
(*   - the BreezyHR pull with its company lookup, the Taleez push with its *)
(*     follow-up association, successive pushes on one action object,      *)
(*   - the format functions of the three vendors (tags, sections,          *)
(*     coordinates).                                                       *)
(* One HTTP request and the handling of its response is one step.  The     *)
(* vendor and the consumer of a lazy sequence are the environment.         *)
(***************************************************************************)
EXTENDS Integers, Sequences, FiniteSets, TLC

VARIABLES
    kind,           \* the operation this run exercises
    vendor,         \* what the vendor holds and how it pages it
    limit,          \* PullJobsAction.limit / page_size, caller supplied
    consumer,       \* position of the consumer of the lazy sequence
    pc,             \* position of the operation's code
    session,        \* the requests.Session the operation created
    page,           \* read: page
    response,       \* read: response (parsed body of the last listing)
    job_i,          \* read: position of `for job in jobs`
    next_page_id,   \* pull.get_page: next_page_id
    job_list,       \* pull.get_page: job_list
    active,         \* pull: position of itertools.chain in the current page
    http,           \* every HTTP request sent, with the status it got
    yielded,        \* the records handed to the consumer, in order
    err,            \* the exception that left the operation
    log,            \* adapter.error / logger records
    profiles,       \* write: the input profiles
    prof_i,         \* write: position of `for profile in profiles`
    failed_profiles,\* write: failed_profiles
    self,           \* breezyhr PushProfileAction fields
    candidate,      \* breezyhr push: candidate
    history,        \* the requests of the earlier calls on the same action
    get_company_id, \* breezyhr pull: what get_company_id() returned
    data,           \* format: the record handed to a format function
    job_obj         \* format: the record the format function built

vars == <<kind, vendor, limit, consumer, pc, session, page, response, job_i,
          next_page_id, job_list, active, http, yielded, err, log,
          profiles, prof_i, failed_profiles, self, candidate, history,
          get_company_id, data, job_obj>>

readVars == <<page, response, job_i>>
pullVars == <<next_page_id, job_list, active>>
writeVars == <<profiles, prof_i, failed_profiles>>
breezyVars == <<self, candidate, history, get_company_id>>
envVars == <<kind, vendor, limit>>
formatVars == <<data, job_obj>>

-----------------------------------------------------------------------------
(* Bounds of the model *)

\* jobs the vendor holds
MaxJobs == 3
\* largest number of items the vendor puts on one page by itself
MaxChunk == 2
\* profiles of one push batch
MaxProfiles == 3

\* HTTP requests of one run: enough for every listing that ends with an
\* empty page (MaxJobs + 1 listings, MaxJobs details), and a cap for the
\* listings that never end
MaxRequests == 2 * MaxJobs + 2

-----------------------------------------------------------------------------
(* Python values *)

None == "None"

Min(a, b) == IF a <= b THEN a ELSE b

\* the status codes the vendor answers with: success, client error, server
\* error (requests follows the redirects itself)
Statuses == {200, 404, 500}

\* a variant that takes only a 5xx status for a failure
IsNotServerError(status) == status < 500

\* `response.status_code // 100 != 2` is the failure test of warehouse.py
Is2xx(status) == status \div 100 = 2

\* a variant that takes a client error for a success
ResponseOkLenient(status) == status < 500

\* `response.ok` of requests: no 4xx / 5xx status
ResponseOk(status) == status < 400

NoError == [type |-> "none"]

-----------------------------------------------------------------------------
(* The vendor (SmartRecruiters GET /jobs and GET /jobs/{id}) *)

\* the page id the vendor hands out for the page starting after `offset` jobs
Token(offset) == "p" \o ToString(offset)

JobId(n) == "j" \o ToString(n)

Offset(cursor) ==
    IF cursor = None THEN 0
    ELSE CHOOSE k \in 0..(MaxJobs + 1) : Token(k) = cursor

\* a reduced job of the listing, and the body of GET /jobs/{id}
LightJob(n) == [id |-> JobId(n), full |-> FALSE]
\* a variant that hands over the reduced job of the listing
ReducedJob(id) == [id |-> id, full |-> FALSE]
FullJob(id) == [id |-> id, full |-> TRUE]

\* body of GET /jobs?limit=..&pageId=..
Listing(v, cursor, lim) ==
    LET start == Offset(cursor)
        rest  == IF v.njobs > start THEN v.njobs - start ELSE 0
        size  == Min(Min(lim, v.chunk), rest)
    IN  [content    |-> [k \in 1..size |-> LightJob(start + k)],
         totalFound |-> v.njobs,
         nextPageId |-> IF size = 0 \/ (v.nullAtEnd /\ start + size = v.njobs)
                        THEN None
                        ELSE Token(start + size)]

Vendors ==
    [njobs : 0..MaxJobs, chunk : 1..MaxChunk, nullAtEnd : BOOLEAN]

-----------------------------------------------------------------------------
(* Logs of requests *)

ListRequest(cursor, lim, status) ==
    [kind |-> "list", arg |-> cursor, limit |-> lim, status |-> status,
     at |-> Len(yielded)]

DetailRequest(id, status) ==
    [kind |-> "detail", arg |-> id, limit |-> 0, status |-> status,
     at |-> Len(yielded)]


-----------------------------------------------------------------------------
(* Program constants *)

\* warehouse.py: SMARTRECRUITERS_JOBS_ENDPOINT_LIMIT
SMARTRECRUITERS_JOBS_ENDPOINT_LIMIT == 100

\* actions.py: default of PullJobsAction.limit
DefaultLimit == 10

\* the page sizes a caller configures: below, at and above the vendor maximum
CallerLimits ==
    {1, 2, DefaultLimit, SMARTRECRUITERS_JOBS_ENDPOINT_LIMIT,
     SMARTRECRUITERS_JOBS_ENDPOINT_LIMIT + 1}

-----------------------------------------------------------------------------
(* The consumer of the lazy sequence: it calls next() with no try/except    *)
(* around it, as `profile = next(data)` of the push actions does, or stops  *)
(* asking.                                                                  *)

ConsumerNext ==
    /\ consumer = "holding"
    /\ consumer' = "waiting"
    /\ UNCHANGED <<envVars, formatVars,
                   pc, session, readVars, pullVars, http, yielded,
                   err, log, writeVars, breezyVars>>

ConsumerStop ==
    /\ consumer = "holding"
    /\ consumer' = "stopped"
    /\ UNCHANGED <<envVars, formatVars,
                   pc, session, readVars, pullVars, http, yielded,
                   err, log, writeVars, breezyVars>>

-----------------------------------------------------------------------------
(* smartrecruiters/warehouse.py: read, a generator *)

\* the exception of warehouse.read: a bare Exception with a fixed message
ReadException == [type |-> "Exception",
                  message |-> "Failed to pull jobs from SmartRecruiters"]

\* calling read() creates the generator; none of its body has run
ReadCall ==
    /\ kind = "read"
    /\ consumer = "idle"
    /\ consumer' = "holding"
    /\ pc' = "start"
    /\ UNCHANGED <<envVars, formatVars,
                   session, readVars, pullVars, http, yielded, err,
                   log, writeVars, breezyVars>>

\* page = None
ReadStart ==
    /\ kind = "read"
    /\ consumer = "waiting"
    /\ pc = "start"
    /\ page' = None
    /\ pc' = "list"
    /\ UNCHANGED <<envVars, formatVars,
                   consumer, session, response, job_i, pullVars,
                   http, yielded, err, log, writeVars, breezyVars>>

\* the `limit` parameter of the listing request of read
ReadLimit == SMARTRECRUITERS_JOBS_ENDPOINT_LIMIT

\* a variant that stops at the first page shorter than the page size
ReadTerminalShortPage(jobs) == Len(jobs) < ReadLimit

\* `if len(jobs) == 0: break`
ReadTerminal(jobs) == Len(jobs) = 0


\* requests.get(SMARTRECRUITERS_JOBS_ENDPOINT, params) and what follows it,
\* up to the first detail request
ReadList ==
    /\ kind = "read"
    /\ consumer = "waiting"
    /\ pc = "list"
    /\ Len(http) < MaxRequests
    /\ \E status \in Statuses :
         /\ http' = Append(http, ListRequest(page, ReadLimit, status))
         /\ IF ~Is2xx(status)
            THEN /\ log' = Append(log, [level |-> "error", what |-> "list",
                                        arg |-> page, status_code |-> status])
                 /\ err' = ReadException
                 /\ pc' = "raised"
                 /\ consumer' = "failed"
                 /\ UNCHANGED <<response, job_i>>
            ELSE LET body == Listing(vendor, page, ReadLimit) IN
                 /\ response' = body
                 /\ IF ReadTerminal(body.content)
                    THEN /\ pc' = "done"
                         /\ consumer' = "exhausted"
                         /\ UNCHANGED <<job_i, log>>
                    ELSE /\ log' = Append(log, [level |-> "info",
                                                what |-> "list",
                                                arg |-> page,
                                                status_code |-> status])
                         /\ job_i' = 1
                         /\ pc' = "detail"
                         /\ UNCHANGED consumer
                 /\ UNCHANGED err
    /\ UNCHANGED <<envVars, formatVars,
                   session, page, pullVars, yielded, writeVars,
                   breezyVars>>

\* requests.get("{}/{}".format(SMARTRECRUITERS_JOBS_ENDPOINT, job["id"]))
\* and `yield full_job_response.json()`
ReadDetail ==
    /\ kind = "read"
    /\ consumer = "waiting"
    /\ pc = "detail"
    /\ Len(http) < MaxRequests
    /\ LET job == response.content[job_i] IN
       \E status \in Statuses :
         /\ http' = Append(http, DetailRequest(job.id, status))
         /\ IF ~Is2xx(status)
            THEN /\ log' = Append(log, [level |-> "error", what |-> "detail",
                                        arg |-> job.id,
                                        status_code |-> status])
                 /\ err' = ReadException
                 /\ pc' = "raised"
                 /\ consumer' = "failed"
                 /\ UNCHANGED yielded
            ELSE /\ yielded' = Append(yielded, FullJob(job.id))
                 /\ pc' = "yield"
                 /\ consumer' = "holding"
                 /\ UNCHANGED <<err, log>>
    /\ UNCHANGED <<envVars, formatVars, session, readVars, pullVars, writeVars,
                   breezyVars>>

\* a variant that asks for the same page again
ReadResumeSamePage ==
    /\ kind = "read"
    /\ consumer = "waiting"
    /\ pc = "yield"
    /\ IF job_i < Len(response.content)
       THEN /\ job_i' = job_i + 1
            /\ pc' = "detail"
       ELSE /\ pc' = "list"
            /\ UNCHANGED job_i
    /\ UNCHANGED <<envVars, formatVars, page,
                   consumer, session, response, pullVars, http,
                   yielded, err, log, writeVars, breezyVars>>

\* the generator is resumed after its yield: the next job of the page, or
\* `page = response["nextPageId"]` and the next turn of `while True`
ReadResume ==
    /\ kind = "read"
    /\ consumer = "waiting"
    /\ pc = "yield"
    /\ IF job_i < Len(response.content)
       THEN /\ job_i' = job_i + 1
            /\ pc' = "detail"
            /\ UNCHANGED page
       ELSE /\ page' = response.nextPageId
            /\ pc' = "list"
            /\ UNCHANGED job_i
    /\ UNCHANGED <<envVars, formatVars,
                   consumer, session, response, pullVars, http,
                   yielded, err, log, writeVars, breezyVars>>

-----------------------------------------------------------------------------
(* smartrecruiters/actions.py: PullJobsAction.pull *)
(* map(get_full_job, itertools.chain.from_iterable(get_page()))            *)

\* job_list = None, before the first page
JobListNone == <<[id |-> None, full |-> FALSE]>>

\* a variant that forgets page_id
PullErrorPageNoCursor(status, cursor) ==
    [type |-> "PullError", message |-> "Fail to get page of jobs",
     status |-> status, page_id |-> None]

\* PullError(response, message=..., page_id=next_page_id)
PullErrorPage(status, cursor) ==
    [type |-> "PullError", message |-> "Fail to get page of jobs",
     status |-> status, page_id |-> cursor]

\* PullError(response, message=..., job_id=job_id)
PullErrorJob(status, id) ==
    [type |-> "PullError", message |-> "Fail to get full job",
     status |-> status, job_id |-> id]

\* a variant that fetches the first page when pull() is called
PullCallEager ==
    /\ kind = "pull"
    /\ consumer = "idle"
    /\ session' = "open"
    /\ consumer' = "holding"
    /\ http' = Append(http, ListRequest(None, limit, 200))
    /\ next_page_id' = Listing(vendor, None, limit).nextPageId
    /\ job_list' = Listing(vendor, None, limit).content
    /\ active' = 0
    /\ pc' = "chain"
    /\ UNCHANGED <<envVars, formatVars, readVars, yielded, err, log, writeVars,
                   breezyVars>>

\* pull() opens the session, prepares the listing request and returns the
\* iterator; get_page has not started and nothing has been sent
PullCall ==
    /\ kind = "pull"
    /\ consumer = "idle"
    /\ session' = "open"
    /\ consumer' = "holding"
    /\ pc' = "start"
    /\ UNCHANGED <<envVars, formatVars,
                   readVars, pullVars, http, yielded, err, log,
                   writeVars, breezyVars>>

\* a variant whose loop has no exit
PullContinueForever(jobs) == TRUE

\* `while job_list != []`
PullContinue(jobs) == jobs # <<>>

\* pull_jobs_params["limit"] = self.limit
PullLimit == limit

\* get_page runs from its start, or from its yield, to its next yield, its
\* end or its raise; chain.from_iterable starts on the page it is given
PullGetPage ==
    /\ kind = "pull"
    /\ consumer = "waiting"
    /\ pc \in {"start", "page"}
    /\ LET cursor == IF pc = "start" THEN None ELSE next_page_id
           jobs   == IF pc = "start" THEN JobListNone ELSE job_list
       IN  IF ~PullContinue(jobs)
           THEN /\ pc' = "done"
                /\ consumer' = "exhausted"
                /\ UNCHANGED <<pullVars, http, err, log>>
           ELSE /\ Len(http) < MaxRequests
                /\ \E status \in Statuses :
                     /\ http' = Append(http,
                                       ListRequest(cursor, PullLimit, status))
                     /\ IF ~ResponseOk(status)
                        THEN /\ err' = PullErrorPage(status, cursor)
                             /\ pc' = "raised"
                             /\ consumer' = "failed"
                             /\ next_page_id' = cursor
                             /\ job_list' = jobs
                             /\ UNCHANGED <<active, log>>
                        ELSE LET body == Listing(vendor, cursor, PullLimit) IN
                             /\ log' = Append(log, [level |-> "info",
                                                    what |-> "list",
                                                    arg |-> cursor,
                                                    status_code |-> status])
                             /\ next_page_id' = body.nextPageId
                             /\ job_list' = body.content
                             /\ active' = 0
                             /\ pc' = "chain"
                             /\ UNCHANGED <<consumer, err>>
    /\ UNCHANGED <<envVars, formatVars, session, readVars, yielded, writeVars,
                   breezyVars>>

\* next() of chain.from_iterable: the next light job of the page it holds,
\* handed to get_full_job, or back to get_page for another page
PullChain ==
    /\ kind = "pull"
    /\ consumer = "waiting"
    /\ pc = "chain"
    /\ IF active < Len(job_list)
       THEN /\ active' = active + 1
            /\ pc' = "detail"
       ELSE /\ pc' = "page"
            /\ UNCHANGED active
    /\ UNCHANGED <<envVars, formatVars,
                   consumer, session, readVars, next_page_id,
                   job_list, http, yielded, err, log, writeVars, breezyVars>>

\* get_full_job(light_job_dict).  A PullError leaves map and chain where
\* they are: the map object is not closed by the exception.
\* SmartRecruitersModel.parse_obj, mapped over the result, belongs to the
\* schema module and keeps the record's content.
PullGetFullJob ==
    /\ kind = "pull"
    /\ consumer = "waiting"
    /\ pc = "detail"
    /\ Len(http) < MaxRequests
    /\ LET job_id == job_list[active].id IN
       \E status \in Statuses :
         /\ http' = Append(http, DetailRequest(job_id, status))
         /\ pc' = "chain"
         /\ IF ~ResponseOk(status)
            THEN /\ err' = PullErrorJob(status, job_id)
                 /\ consumer' = "failed"
                 /\ UNCHANGED <<yielded, log>>
            ELSE /\ log' = Append(log, [level |-> "info", what |-> "detail",
                                        arg |-> job_id,
                                        status_code |-> status])
                 /\ yielded' = Append(yielded, FullJob(job_id))
                 /\ consumer' = "holding"
                 /\ UNCHANGED err
    /\ UNCHANGED <<envVars, formatVars, session, readVars, pullVars, writeVars,
                   breezyVars>>

-----------------------------------------------------------------------------
(* smartrecruiters/warehouse.py: write *)

Profile(n) == [email |-> "e" \o ToString(n)]

\* the batches of profiles handed to a push
Batches == {[k \in 1..n |-> Profile(k)] : n \in 0..MaxProfiles}

PostRequest(profile, status) ==
    [kind |-> "post", arg |-> profile.email, limit |-> 0, status |-> status,
     at |-> Len(yielded)]

\* adapter.info("Pushing {} profiles ..."); failed_profiles = []
WriteCall ==
    /\ kind = "write"
    /\ pc = "new"
    /\ log' = Append(log, [level |-> "info", what |-> "push",
                           arg |-> None, status_code |-> Len(profiles)])
    /\ failed_profiles' = <<>>
    /\ prof_i' = 0
    /\ pc' = "loop"
    /\ UNCHANGED <<envVars, formatVars,
                   consumer, session, readVars, pullVars, http,
                   yielded, err, profiles, breezyVars>>

\* a variant that does not record the failed profile
FailedAfterDropped(failed, profile, status) == failed

\* a variant that puts the failed profile in front of the list
FailedAfterPrepended(failed, profile, status) ==
    IF ~Is2xx(status) THEN <<profile>> \o failed ELSE failed

\* `if response.status_code // 100 != 2: failed_profiles.append(profile)`
FailedAfter(failed, profile, status) ==
    IF ~Is2xx(status) THEN Append(failed, profile) ELSE failed

\* a variant that leaves the loop at the first failed profile
WritePostAbort ==
    /\ kind = "write"
    /\ pc = "loop"
    /\ prof_i < Len(profiles)
    /\ LET profile == profiles[prof_i + 1] IN
       \E status \in Statuses :
         /\ http' = Append(http, PostRequest(profile, status))
         /\ failed_profiles' = FailedAfter(failed_profiles, profile, status)
         /\ prof_i' = IF ~Is2xx(status) THEN Len(profiles) ELSE prof_i + 1
    /\ UNCHANGED <<envVars, formatVars,
                   consumer, pc, session, readVars, pullVars,
                   yielded, err, log, profiles, breezyVars>>

\* one turn of `for profile in profiles`: requests.post(.., json=profile)
WritePost ==
    /\ kind = "write"
    /\ pc = "loop"
    /\ prof_i < Len(profiles)
    /\ LET profile == profiles[prof_i + 1] IN
       \E status \in Statuses :
         /\ http' = Append(http, PostRequest(profile, status))
         /\ failed_profiles' = FailedAfter(failed_profiles, profile, status)
         /\ log' = IF ~Is2xx(status)
                   THEN Append(log, [level |-> "error", what |-> "push",
                                     arg |-> profile.email,
                                     status_code |-> status])
                   ELSE log
    /\ prof_i' = prof_i + 1
    /\ UNCHANGED <<envVars, formatVars,
                   consumer, pc, session, readVars, pullVars,
                   yielded, err, profiles, breezyVars>>

\* return failed_profiles
WriteReturn ==
    /\ kind = "write"
    /\ pc = "loop"
    /\ prof_i = Len(profiles)
    /\ pc' = "returned"
    /\ UNCHANGED <<envVars, formatVars,
                   consumer, session, readVars, pullVars, http,
                   yielded, err, log, writeVars, breezyVars>>

-----------------------------------------------------------------------------
(* breezyhr/actions.py: PushProfileAction.push *)

NoCandidate == [_id |-> None]

\* what GET /companies and GET .../candidates/search answer
Company(name, id) == [name |-> name, _id |-> id]

CompanyLists ==
    { <<>>,
      <<Company("acme", "co1")>>,
      <<Company("other", "co2")>>,
      <<Company("other", "co2"), Company("acme", "co1")>>,
      <<Company("acme", "co1"), Company("acme", "co3")>> }

Candidate(n) == [_id |-> "cand" \o ToString(n)]

BreezyVendors ==
    [company_list : CompanyLists,
     candidate_list : {[k \in 1..n |-> Candidate(k)] : n \in 0..2}]

\* the configured action: company_id given, or to be found by company_name
BreezyActions ==
    { [company_id |-> "co1", company_name |-> None],
      [company_id |-> None, company_name |-> "acme"] }

BreezyRequest(what, company_id, arg, status) ==
    [kind |-> what, arg |-> arg, limit |-> 0, status |-> status,
     at |-> Len(yielded), company |-> company_id]

\* PushError(response, message=error_message), raised by send_request
PushError(status, message) ==
    [type |-> "PushError", message |-> message, status |-> status]

\* a variant that looks the company up whether company_id is set or not
BreezyCallAlwaysLooksUp ==
    /\ kind = "breezy"
    /\ pc = "new"
    /\ prof_i' = 1
    /\ session' = "open"
    /\ pc' = "company"
    /\ UNCHANGED <<envVars, formatVars, consumer, readVars, pullVars, http,
                   yielded, err, log, profiles, failed_profiles, breezyVars>>

\* profile = next(data); session = requests.Session()
BreezyCall ==
    /\ kind = "breezy"
    /\ pc = "new"
    /\ prof_i' = 1
    /\ session' = "open"
    /\ pc' = IF self.company_id = None THEN "company" ELSE "search"
    /\ UNCHANGED <<envVars, formatVars,
                   consumer, readVars, pullVars, http, yielded,
                   err, log, profiles, failed_profiles, breezyVars>>

\* the next call of push on the same action object, with the same `data`:
\* `profile = next(data)` takes the next profile, the locals are fresh and
\* the fields of `self` are what the call before left
BreezyCallAgain ==
    /\ kind = "breezy"
    /\ pc = "returned"
    /\ prof_i < Len(profiles)
    /\ prof_i' = prof_i + 1
    /\ history' = Append(history, http)
    /\ http' = <<>>
    /\ candidate' = NoCandidate
    /\ session' = "open"
    /\ pc' = IF self.company_id = None THEN "company" ELSE "search"
    /\ UNCHANGED <<envVars, formatVars,
                   consumer, readVars, pullVars, yielded, err, log,
                   profiles, failed_profiles, self, get_company_id>>

\* `for company in company_list: if company["name"] == self.company_name:
\*      self.company_id = company["_id"]`, a loop with no break
RECURSIVE CompanyIdAfter(_, _, _)
CompanyIdAfter(company_id, company_list, company_name) ==
    IF company_list = <<>> THEN company_id
    ELSE CompanyIdAfter(IF Head(company_list).name = company_name
                        THEN Head(company_list)._id
                        ELSE company_id,
                        Tail(company_list), company_name)

\* GET https://api.breezy.hr/v3/companies
BreezyGetCompany ==
    /\ kind = "breezy"
    /\ pc = "company"
    /\ \E status \in Statuses :
         /\ http' = Append(http, BreezyRequest("companies", None, None,
                                               status))
         /\ IF ~ResponseOk(status)
            THEN /\ err' = PushError(status, "Couldn't get company id")
                 /\ pc' = "raised"
                 /\ UNCHANGED self
            ELSE /\ self' = [self EXCEPT !.company_id =
                               CompanyIdAfter(self.company_id,
                                              vendor.company_list,
                                              self.company_name)]
                 /\ pc' = "search"
                 /\ UNCHANGED err
    /\ UNCHANGED <<envVars, formatVars,
                   consumer, session, readVars, pullVars, yielded,
                   log, writeVars, candidate, history, get_company_id>>

\* a variant that does not look at the answer of the search
FirstCandidateIgnored(candidate_list) == NoCandidate

\* `candidate = None; if candidate_list != []: candidate = candidate_list[0]`
FirstCandidate(candidate_list) ==
    IF candidate_list # <<>> THEN candidate_list[1] ELSE NoCandidate

\* a variant that skips the profile when the search fails
BreezySearchSkipping ==
    /\ kind = "breezy"
    /\ pc = "search"
    /\ \E status \in Statuses :
         /\ http' = Append(http, BreezyRequest("search", self.company_id,
                                               profiles[prof_i].email,
                                               status))
         /\ IF ~ResponseOk(status)
            THEN /\ pc' = "returned"
                 /\ UNCHANGED <<candidate, err>>
            ELSE /\ candidate' = FirstCandidate(vendor.candidate_list)
                 /\ pc' = "write"
                 /\ UNCHANGED err
    /\ UNCHANGED <<envVars, formatVars,
                   consumer, session, readVars, pullVars, yielded,
                   log, writeVars, self, history, get_company_id>>

\* GET .../company/{company_id}/candidates/search?email_address=..
BreezySearch ==
    /\ kind = "breezy"
    /\ pc = "search"
    /\ \E status \in Statuses :
         /\ http' = Append(http, BreezyRequest("search", self.company_id,
                                               profiles[prof_i].email,
                                               status))
         /\ IF ~ResponseOk(status)
            THEN /\ err' = PushError(status, "Couldn't get candidate")
                 /\ pc' = "raised"
                 /\ UNCHANGED candidate
            ELSE /\ candidate' = FirstCandidate(vendor.candidate_list)
                 /\ pc' = "write"
                 /\ UNCHANGED err
    /\ UNCHANGED <<envVars, formatVars,
                   consumer, session, readVars, pullVars, yielded,
                   log, writeVars, self, history, get_company_id>>

\* PUT .../position/{position_id}/candidate/{candidate_id} when the
\* candidate exists, POST .../position/{position_id}/candidates otherwise
BreezyWrite ==
    /\ kind = "breezy"
    /\ pc = "write"
    /\ \E status \in Statuses :
         /\ IF candidate # NoCandidate
            THEN /\ http' = Append(http, BreezyRequest("put",
                                       self.company_id, candidate._id,
                                       status))
                 /\ log' = Append(log, [level |-> "info", what |-> "update",
                                        arg |-> candidate._id,
                                        status_code |-> 0])
                 /\ err' = IF ~ResponseOk(status)
                           THEN PushError(status,
                                    "Couldn't update candidate profile'")
                           ELSE err
            ELSE /\ http' = Append(http, BreezyRequest("post",
                                       self.company_id,
                                       profiles[prof_i].email, status))
                 /\ log' = Append(log, [level |-> "info", what |-> "create",
                                        arg |-> profiles[prof_i].email,
                                        status_code |-> 0])
                 /\ err' = IF ~ResponseOk(status)
                           THEN PushError(status,
                                    "Push Profile to BreezyHr failed")
                           ELSE err
         /\ pc' = IF ~ResponseOk(status) THEN "raised" ELSE "returned"
    /\ UNCHANGED <<envVars, formatVars,
                   consumer, session, readVars, pullVars, yielded,
                   writeVars, breezyVars>>

-----------------------------------------------------------------------------
(* breezyhr/actions.py: PullJobsAction.pull *)

BreezyPullVendors ==
    [company_list : CompanyLists,
     positions : {[k \in 1..n |-> FullJob(JobId(k))] : n \in 0..1}]

\* `for company in company_list: if company["name"] == self.company_name:
\*      return company["_id"]`, and None when the loop ends
RECURSIVE FirstCompanyId(_, _)
FirstCompanyId(company_list, company_name) ==
    IF company_list = <<>> THEN None
    ELSE IF Head(company_list).name = company_name
         THEN Head(company_list)._id
         ELSE FirstCompanyId(Tail(company_list), company_name)

\* session = requests.Session(); get_company_id(), called while the url of
\* the listing is built
BreezyPullCompany ==
    /\ kind = "breezy_pull"
    /\ pc = "new"
    /\ session' = "open"
    /\ IF self.company_id # None
       THEN /\ get_company_id' = self.company_id
            /\ pc' = "positions"
            /\ UNCHANGED <<http, err>>
       ELSE \E status \in Statuses :
              /\ http' = Append(http, BreezyRequest("companies", None, None,
                                                    status))
              /\ IF ~ResponseOk(status)
                 THEN /\ err' = [type |-> "PullError",
                                 message |-> "Couldn't get company id",
                                 status |-> status]
                      /\ pc' = "raised"
                      /\ UNCHANGED get_company_id
                 ELSE /\ get_company_id' =
                            FirstCompanyId(vendor.company_list,
                                           self.company_name)
                      /\ pc' = "positions"
                      /\ UNCHANGED err
    /\ UNCHANGED <<envVars, formatVars,
                   consumer, readVars, pullVars, yielded, log,
                   writeVars, self, candidate, history>>

\* GET https://api.breezy.hr/v3/company/{get_company_id()}/positions?
BreezyPullPositions ==
    /\ kind = "breezy_pull"
    /\ pc = "positions"
    /\ \E status \in Statuses :
         /\ http' = Append(http, BreezyRequest("positions", get_company_id,
                                               None, status))
         /\ IF ~ResponseOk(status)
            THEN /\ err' = [type |-> "PullError",
                            message |->
                                "Failed to get jobs from this endpoint",
                            status |-> status]
                 /\ pc' = "raised"
                 /\ UNCHANGED job_list
            ELSE /\ job_list' = vendor.positions
                 /\ pc' = "returned"
                 /\ UNCHANGED err
    /\ UNCHANGED <<envVars, formatVars,
                   consumer, session, readVars, next_page_id, active,
                   yielded, log, writeVars, breezyVars>>

-----------------------------------------------------------------------------
(* taleez/actions.py: PullJobsAction.pull, one page, fetched by the call *)

\* PullJobsAction.page, the default
TaleezPage == 0

\* body of GET /0/jobs?page=..&pageSize=..&withDetails=true
TaleezListing(v, pg, size) ==
    LET start == pg * size
        rest  == IF v.njobs > start THEN v.njobs - start ELSE 0
        n     == Min(Min(size, v.chunk), rest)
    IN  [list |-> [k \in 1..n |-> FullJob(JobId(start + k))],
         listSize |-> v.njobs]

\* session.send(prepared_request); `job_obj_iter = map(parse_obj, job_list)`
TaleezPull ==
    /\ kind = "taleez"
    /\ consumer = "idle"
    /\ session' = "open"
    /\ \E status \in Statuses :
         /\ http' = Append(http, ListRequest(ToString(TaleezPage), limit,
                                             status))
         /\ IF ~ResponseOk(status)
            THEN /\ err' = [type |-> "PullError",
                            message |-> "Failed to get jobs",
                            status |-> status]
                 /\ pc' = "raised"
                 /\ consumer' = "failed"
                 /\ UNCHANGED <<job_list, active, log>>
            ELSE /\ log' = Append(log, [level |-> "info", what |-> "list",
                                        arg |-> ToString(TaleezPage),
                                        status_code |-> status])
                 /\ job_list' = TaleezListing(vendor, TaleezPage, limit).list
                 /\ active' = 0
                 /\ pc' = "returned"
                 /\ consumer' = "holding"
                 /\ UNCHANGED err
    /\ UNCHANGED <<envVars, formatVars,
                   readVars, next_page_id, yielded, writeVars,
                   breezyVars>>

\* next() of the map over the fetched list
TaleezNext ==
    /\ kind = "taleez"
    /\ consumer = "waiting"
    /\ IF active < Len(job_list)
       THEN /\ active' = active + 1
            /\ yielded' = Append(yielded, job_list[active + 1])
            /\ consumer' = "holding"
            /\ UNCHANGED pc
       ELSE /\ pc' = "done"
            /\ consumer' = "exhausted"
            /\ UNCHANGED <<active, yielded>>
    /\ UNCHANGED <<envVars, formatVars,
                   session, readVars, next_page_id, job_list, http,
                   err, log, writeVars, breezyVars>>

-----------------------------------------------------------------------------
(* taleez/actions.py: PushProfileAction.push *)

\* the configured action: job_id is optional
TaleezActions == { [job_id |-> None], [job_id |-> "job7"] }

\* the vendor numbers the candidates it creates
TaleezPushVendors == [first_id : {1, 5}]

\* "id" of the body of the n-th successful POST /0/candidates
TaleezCreated(v, n) == "cand" \o ToString(v.first_id + n - 1)

TaleezPushRequest(what, arg, status, job_id) ==
    [kind |-> what, arg |-> arg, limit |-> 0, status |-> status,
     at |-> Len(yielded), job_id |-> job_id]

\* `profile = next(data); session = requests.Session()`, the first call
\* and every later call on the same action object with the same `data`
TaleezPushCall ==
    /\ kind = "taleez_push"
    /\ \/ pc = "new"
       \/ pc = "returned" /\ prof_i < Len(profiles)
    /\ prof_i' = prof_i + 1
    /\ history' = IF pc = "returned" THEN Append(history, http) ELSE history
    /\ http' = <<>>
    /\ candidate' = NoCandidate
    /\ session' = "open"
    /\ pc' = "create"
    /\ UNCHANGED <<envVars, formatVars,
                   consumer, readVars, pullVars, yielded, err, log,
                   profiles, failed_profiles, self, get_company_id>>

\* a variant that goes on to the association whatever the create answered
TaleezPushCreateUnchecked ==
    /\ kind = "taleez_push"
    /\ pc = "create"
    /\ \E status \in Statuses :
         /\ http' = Append(http, TaleezPushRequest("create",
                                   profiles[prof_i].email, status, None))
         /\ IF self.job_id # None
            THEN /\ candidate' = [_id |-> IF ResponseOk(status)
                                          THEN TaleezCreated(vendor, prof_i)
                                          ELSE None]
                 /\ pc' = "associate"
            ELSE /\ pc' = "returned"
                 /\ UNCHANGED candidate
    /\ UNCHANGED <<envVars, formatVars,
                   consumer, session, readVars, pullVars, yielded,
                   err, log, writeVars, self, history, get_company_id>>

\* POST https://api.taleez.com/0/candidates
TaleezPushCreate ==
    /\ kind = "taleez_push"
    /\ pc = "create"
    /\ \E status \in Statuses :
         /\ http' = Append(http, TaleezPushRequest("create",
                                   profiles[prof_i].email, status, None))
         /\ IF ~ResponseOk(status)
            THEN /\ err' = PushError(status, None)
                 /\ pc' = "raised"
                 /\ UNCHANGED candidate
            ELSE /\ IF self.job_id # None
                    THEN /\ candidate' =
                                [_id |-> TaleezCreated(vendor, prof_i)]
                         /\ pc' = "associate"
                    ELSE /\ pc' = "returned"
                         /\ UNCHANGED candidate
                 /\ UNCHANGED err
    /\ UNCHANGED <<envVars, formatVars,
                   consumer, session, readVars, pullVars, yielded,
                   log, writeVars, self, history, get_company_id>>

\* PushError(add_profile_response, job_id=self.job_id)
TaleezAssociateError(status, job_id) ==
    [type |-> "PushError", message |-> None, status |-> status,
     job_id |-> job_id]

\* POST https://api.taleez.com/0/jobs/{job_id}/candidates, ids=[candidate_id]
TaleezPushAssociate ==
    /\ kind = "taleez_push"
    /\ pc = "associate"
    /\ \E status \in Statuses :
         /\ http' = Append(http, TaleezPushRequest("associate",
                                   candidate._id, status, self.job_id))
         /\ IF ~ResponseOk(status)
            THEN /\ err' = TaleezAssociateError(status, self.job_id)
                 /\ pc' = "raised"
            ELSE /\ pc' = "returned"
                 /\ UNCHANGED err
    /\ UNCHANGED <<envVars, formatVars,
                   consumer, session, readVars, pullVars, yielded,
                   log, writeVars, breezyVars>>

-----------------------------------------------------------------------------
(* The format functions: actions.py of smartrecruiters, taleez, breezyhr *)

\* Python values, with their type
PyNone == [t |-> "none"]
PyStr(v) == [t |-> "str", v |-> v]
PyInt(v) == [t |-> "int", v |-> v]
PyFloat(v) == [t |-> "float", v |-> v]
PyBool(v) == [t |-> "bool", v |-> v]
PyEmptyList == [t |-> "list"]

\* float(x) of a number: the same value, as a float
Float(x) == PyFloat(x.v)

\* the coordinates a vendor sends: none, an integer, a float, zero itself
Coordinates == {PyNone, PyInt(0), PyInt(48), PyFloat(2)}

OptionalStr == {PyNone, PyStr("a")}

OptionalBool == {PyNone, PyBool(TRUE), PyBool(FALSE)}

\* what a format function builds: location, sections, tags
Job(lat, lng, sections, tags) ==
    [location |-> [lat |-> lat, lng |-> lng],
     sections |-> sections,
     tags |-> tags]

NoJob == Job(PyNone, PyNone, <<>>, <<>>)

NoData == [source |-> None]

\* utils.clean_text.remove_html_tags: None for None, else the text with its
\* markup stripped
RemoveHtmlTags(text) ==
    IF text = PyNone THEN PyNone
    ELSE IF text.v = "<p>a&nbsp;b</p>" THEN PyStr("a&nbsp;b")
    ELSE IF text.v = "<p>a</p>" THEN PyStr("a")
    ELSE text

\* description.replace("&nbsp;", " ")
ReplaceNbsp(text) ==
    IF text.v = "a&nbsp;b" THEN PyStr("a b") ELSE text

\* `if field_value is not None: job["tags"].append(dict(name=.., value=..))`
CreateTag(name, value) ==
    IF value # PyNone THEN <<[name |-> name, value |-> value]>> ELSE <<>>

\* a variant that defaults a missing coordinate to 0
CoordinateOrZero(x) == IF x # PyNone THEN Float(x) ELSE PyFloat(0)

\* `lat = ...get("latitude"); if lat is not None: lat = float(lat)`
Coordinate(x) == IF x # PyNone THEN Float(x) ELSE PyNone

\* the job a SmartRecruiters detail request returns, reduced to the fields
\* that take the different paths of format
SmartRecruitersJobs ==
    [source : {"smartrecruiters"},
     latitude : Coordinates,
     longitude : {PyNone, PyInt(2)},
     remote : {PyNone, PyBool(TRUE)},
     status : OptionalStr,
     experienceLevel : {PyNone, [t |-> "dict", id |-> PyNone],
                        [t |-> "dict", id |-> PyStr("a")]},
     jobDescription : {PyNone,
                       [t |-> "dict", title |-> PyStr("a"),
                        text |-> PyStr("a")]}]

\* smartrecruiters PullJobsAction.format
SmartRecruitersJob(d) ==
    Job(Coordinate(d.latitude),
        Coordinate(d.longitude),
        IF d.jobDescription # PyNone
        THEN <<[name |-> "smartrecruiters_jobAd-sections-jobDescription",
                title |-> d.jobDescription.title,
                description |-> d.jobDescription.text]>>
        ELSE <<>>,
        CreateTag("smartr_status", d.status)
          \o (IF d.experienceLevel.t = "dict"
              THEN CreateTag("smartr_experienceLevel-id",
                             d.experienceLevel.id)
              ELSE <<>>)
          \o CreateTag("smartr_location-remote", d.remote))

SmartRecruitersFormat ==
    /\ kind = "format"
    /\ pc = "new"
    /\ data.source = "smartrecruiters"
    /\ job_obj' = SmartRecruitersJob(data)
    /\ pc' = "formatted"
    /\ UNCHANGED <<envVars, data, consumer, session, readVars, pullVars,
                   http, yielded, err, log, writeVars, breezyVars>>

TaleezJobs ==
    [source : {"taleez"},
     lat : Coordinates,
     lng : {PyNone, PyInt(2)},
     contract : OptionalStr,
     remote : OptionalBool,
     jobDescription : {PyNone, PyStr("<p>a</p>")}]

\* `description = remove_html_tags(data.get(field_name));
\*  if description is not None: job["sections"].append(..)`
CreateSection(name, text) ==
    LET description == RemoveHtmlTags(text)
    IN  IF description # PyNone
        THEN <<[name |-> name, title |-> name,
                description |-> description]>>
        ELSE <<>>

\* taleez PullJobsAction.format
TaleezJob(d) ==
    Job(d.lat,
        d.lng,
        CreateSection("taleez_jobDescription", d.jobDescription),
        CreateTag("taleez_contract", d.contract)
          \o CreateTag("taleez_remote", d.remote))

TaleezFormat ==
    /\ kind = "format"
    /\ pc = "new"
    /\ data.source = "taleez"
    /\ job_obj' = TaleezJob(data)
    /\ pc' = "formatted"
    /\ UNCHANGED <<envVars, data, consumer, session, readVars, pullVars,
                   http, yielded, err, log, writeVars, breezyVars>>

BreezyJobs ==
    [source : {"breezyhr"},
     type : {PyNone, PyStr("a"), [t |-> "dict", name |-> PyNone],
             [t |-> "dict", name |-> PyStr("a")]},
     is_remote : OptionalBool,
     description : {PyStr("<p>a&nbsp;b</p>")}]

\* create_tag of breezyhr: a tag for a dict (its "name") and for a str
BreezyCreateTag(name, value) ==
    IF value.t = "dict" THEN <<[name |-> name, value |-> value.name]>>
    ELSE IF value.t = "str" THEN <<[name |-> name, value |-> value]>>
    ELSE <<>>

\* breezyhr PullJobsAction.format
BreezyJob(d) ==
    Job(PyNone,
        PyNone,
        <<[name |-> "breezy_hr_description",
           title |-> "Breezy_hr_description",
           description |-> ReplaceNbsp(RemoveHtmlTags(d.description))]>>,
        BreezyCreateTag("breezy_hr_type", d.type)
          \o <<[name |-> "breezy_hr_remote", value |-> d.is_remote]>>)

BreezyFormat ==
    /\ kind = "format"
    /\ pc = "new"
    /\ data.source = "breezyhr"
    /\ job_obj' = BreezyJob(data)
    /\ pc' = "formatted"
    /\ UNCHANGED <<envVars, data, consumer, session, readVars, pullVars,
                   http, yielded, err, log, writeVars, breezyVars>>

\* info["location"] of the profile handed to the SmartRecruiters push
Profiles ==
    [source : {"profile"},
     fields : {PyNone, PyEmptyList, [t |-> "dict"]},
     lat : Coordinates,
     lng : {PyNone, PyInt(2)}]

\* smartrecruiters PushProfileAction.format: smart_candidate["location"]
SmartCandidate(d) ==
    IF d.fields \notin {PyEmptyList, PyNone}
    THEN Job(IF d.lat # PyNone THEN d.lat ELSE PyInt(0),
             IF d.lng # PyNone THEN d.lng ELSE PyInt(0),
             <<>>, <<>>)
    ELSE Job(PyInt(0), PyInt(0), <<>>, <<>>)

SmartRecruitersProfileFormat ==
    /\ kind = "format"
    /\ pc = "new"
    /\ data.source = "profile"
    /\ job_obj' = SmartCandidate(data)
    /\ pc' = "formatted"
    /\ UNCHANGED <<envVars, data, consumer, session, readVars, pullVars,
                   http, yielded, err, log, writeVars, breezyVars>>

-----------------------------------------------------------------------------
(* The state after construction *)

NoResponse == [content |-> <<>>, totalFound |-> 0, nextPageId |-> None]

InitCommon ==
    /\ consumer = "idle"
    /\ pc = "new"
    /\ session = "none"
    /\ page = None
    /\ response = NoResponse
    /\ job_i = 0
    /\ next_page_id = None
    /\ job_list = <<>>
    /\ active = 0
    /\ http = <<>>
    /\ yielded = <<>>
    /\ err = NoError
    /\ log = <<>>
    /\ prof_i = 0
    /\ failed_profiles = <<>>
    /\ candidate = NoCandidate
    /\ history = <<>>
    /\ get_company_id = None
    /\ job_obj = NoJob

NoVendor == [njobs |-> 0, chunk |-> 1, nullAtEnd |-> FALSE]

NoSelf == [company_id |-> None, company_name |-> None]

InitRead ==
    /\ kind = "read"
    /\ vendor \in Vendors
    /\ limit = DefaultLimit
    /\ profiles = <<>>
    /\ self = NoSelf
    /\ data = NoData
    /\ InitCommon

InitPull ==
    /\ kind = "pull"
    /\ vendor \in Vendors
    /\ limit \in CallerLimits
    /\ profiles = <<>>
    /\ self = NoSelf
    /\ data = NoData
    /\ InitCommon

InitTaleez ==
    /\ kind = "taleez"
    /\ vendor \in {v \in Vendors : ~v.nullAtEnd}
    /\ limit \in CallerLimits
    /\ profiles = <<>>
    /\ self = NoSelf
    /\ data = NoData
    /\ InitCommon

InitWrite ==
    /\ kind = "write"
    /\ vendor = NoVendor
    /\ limit = DefaultLimit
    /\ profiles \in Batches
    /\ self = NoSelf
    /\ data = NoData
    /\ InitCommon

InitBreezy ==
    /\ kind = "breezy"
    /\ vendor \in BreezyVendors
    /\ limit = DefaultLimit
    /\ profiles \in Batches \ {<<>>}
    /\ self \in BreezyActions
    /\ data = NoData
    /\ InitCommon

InitBreezyPull ==
    /\ kind = "breezy_pull"
    /\ vendor \in BreezyPullVendors
    /\ limit = DefaultLimit
    /\ profiles = <<>>
    /\ self \in BreezyActions
    /\ data = NoData
    /\ InitCommon

InitTaleezPush ==
    /\ kind = "taleez_push"
    /\ vendor \in TaleezPushVendors
    /\ limit = DefaultLimit
    /\ profiles \in Batches \ {<<>>}
    /\ self \in TaleezActions
    /\ data = NoData
    /\ InitCommon

InitFormat ==
    /\ kind = "format"
    /\ vendor = NoVendor
    /\ limit = DefaultLimit
    /\ profiles = <<>>
    /\ self = NoSelf
    /\ data \in SmartRecruitersJobs \cup TaleezJobs \cup BreezyJobs
                \cup Profiles
    /\ InitCommon

Init ==
    \/ InitRead
    \/ InitPull
    \/ InitTaleez
    \/ InitWrite
    \/ InitBreezy
    \/ InitBreezyPull
    \/ InitTaleezPush
    \/ InitFormat

Next ==
    \/ ConsumerNext
    \/ ConsumerStop
    \/ ReadCall
    \/ ReadStart
    \/ ReadList
    \/ ReadDetail
    \/ ReadResume
    \/ PullCall
    \/ PullGetPage
    \/ PullChain
    \/ PullGetFullJob
    \/ WriteCall
    \/ WritePost
    \/ WriteReturn
    \/ BreezyCall
    \/ BreezyCallAgain
    \/ BreezyGetCompany
    \/ BreezySearch
    \/ BreezyWrite
    \/ BreezyPullCompany
    \/ BreezyPullPositions
    \/ TaleezPull
    \/ TaleezNext
    \/ TaleezPushCall
    \/ TaleezPushCreate
    \/ TaleezPushAssociate
    \/ SmartRecruitersFormat
    \/ TaleezFormat
    \/ BreezyFormat
    \/ SmartRecruitersProfileFormat

Spec == Init /\ [][Next]_vars

-----------------------------------------------------------------------------
(* Vocabulary of the properties, read off the log of requests *)

Paginating == kind \in {"read", "pull"}

IsPrefix(s, t) == Len(s) <= Len(t) /\ \A k \in 1..Len(s) : s[k] = t[k]

\* a non-2xx status
Non2xx(status) == status < 200 \/ status > 299

ListOk(r) == r.kind = "list" /\ ~Non2xx(r.status)
ListFailed(r) == r.kind = "list" /\ Non2xx(r.status)
DetailOk(r) == r.kind = "detail" /\ ~Non2xx(r.status)
DetailFailed(r) == r.kind = "detail" /\ Non2xx(r.status)

\* what the vendor answered to a listing request
Answer(r) == Listing(vendor, r.arg, r.limit)

\* the detailed record of a listed item
Detailed(job) == FullJob(job.id)

\* the items listed by the answers to the first n requests, in listing order
RECURSIVE ListedUpTo(_)
ListedUpTo(n) ==
    IF n = 0 THEN <<>>
    ELSE ListedUpTo(n - 1)
         \o (IF ListOk(http[n]) THEN Answer(http[n]).content ELSE <<>>)

Listed == ListedUpTo(Len(http))

\* every job the vendor holds, detailed, in the vendor's order
AllJobs == [k \in 1..vendor.njobs |-> FullJob(JobId(k))]

\* the sequence has ended, or next() is returning StopIteration
Ending == consumer \in {"waiting", "exhausted"} /\ pc \in {"chain", "page", "done"}

\* the listing is a chain of non-empty pages followed by one empty page
EndsWithEmptyPage == ~vendor.nullAtEnd

\* the page size the run sends is within the vendor's maximum
PageSizeWithinMax ==
    kind = "pull" => limit <= SMARTRECRUITERS_JOBS_ENDPOINT_LIMIT

-----------------------------------------------------------------------------
(* C1: when the listing is a chain of non-empty pages followed by an empty  *)
(* page and the page size is at most the vendor maximum, both paginators    *)
(* yield the detailed record of every listed item exactly once, in listing  *)
(* order: what has been yielded is always a prefix of the vendor's jobs, a  *)
(* run needs at most 2 * njobs + 1 requests, and the sequence ends exactly  *)
(* when a listing answers zero items, with every job yielded.               *)
C1_EveryItemOnceInOrder ==
    (Paginating /\ EndsWithEmptyPage /\ PageSizeWithinMax) =>
        /\ IsPrefix(yielded, AllJobs)
        /\ Len(http) <= 2 * vendor.njobs + 1
        /\ consumer = "exhausted" =>
             /\ yielded = AllJobs
             /\ ListOk(http[Len(http)])
             /\ Answer(http[Len(http)]).content = <<>>
        /\ (http # <<>> /\ ListOk(http[Len(http)])
              /\ Answer(http[Len(http)]).content = <<>>)
             => (yielded = AllJobs /\ Ending)

\* three jobs on two non-empty pages and the empty page, all yielded
C1_Witness ==
    /\ Paginating
    /\ EndsWithEmptyPage
    /\ PageSizeWithinMax
    /\ consumer = "exhausted"
    /\ vendor.chunk = 2
    /\ Len(yielded) = 3
    /\ Cardinality({k \in 1..Len(http) : ListOk(http[k])}) = 3

-----------------------------------------------------------------------------
\* a 2xx listing answer with zero items
EmptyAnswer(r) == ListOk(r) /\ Answer(r).content = <<>>

\* the scenario: the first page answered 2 items and nextPageId "p2",
\* and the page "p2" is empty
TwoThenNone ==
    /\ Paginating
    /\ http # <<>>
    /\ ListOk(http[1])
    /\ Len(Answer(http[1]).content) = 2
    /\ Answer(http[1]).nextPageId = "p2"
    /\ Answer([http[1] EXCEPT !.arg = "p2"]).content = <<>>

(* C2: a listing answer with zero items is the last request of the run and  *)
(* nothing is yielded after it; when page 1 answers 2 items with            *)
(* nextPageId "p2" and page 2 answers none, exactly 2 detailed records are  *)
(* yielded and the last listing request carries the cursor "p2".            *)
C2_StopsAtEmptyPage ==
    Paginating =>
        /\ \A k \in 1..Len(http) :
             EmptyAnswer(http[k]) =>
                 /\ k = Len(http)
                 /\ http[k].at = Len(yielded)
                 /\ Ending
        /\ (TwoThenNone /\ consumer = "exhausted") =>
             /\ Len(yielded) = 2
             /\ \A k \in 1..2 : yielded[k].full
             /\ http[Len(http)].kind = "list"
             /\ http[Len(http)].arg = "p2"
             /\ Cardinality({k \in 1..Len(http) : http[k].kind = "list"}) = 2

\* page 1 answered 2 items and "p2", page "p2" answered none, and the
\* sequence ended
C2_Witness ==
    /\ TwoThenNone
    /\ consumer = "exhausted"
    /\ Len(yielded) = 2
    /\ http[Len(http)].arg = "p2"

-----------------------------------------------------------------------------
\* a 2xx listing answer with items and a null nextPageId
NullNextAnswer(r) ==
    ListOk(r) /\ Answer(r).content # <<>> /\ Answer(r).nextPageId = None

(* C3, as claimed: a listing answer with a non-empty item list and a null   *)
(* nextPageId is followed by no other listing request.                      *)
C3_StopsAtNullNextPageId ==
    Paginating =>
        \A k \in 1..Len(http) :
            NullNextAnswer(http[k]) =>
                \A m \in (k + 1)..Len(http) : http[m].kind # "list"

-----------------------------------------------------------------------------
\* exception e has the field, with that value
Carries(e, field, value) == field \in DOMAIN e /\ e[field] = value

-----------------------------------------------------------------------------
-----------------------------------------------------------------------------
(* C6, as claimed: every listing request carries a page size of at most    *)
(* the vendor maximum, 100.                                                *)
C6_PageSizeCapped ==
    \A k \in 1..Len(http) :
        http[k].kind = "list" =>
            http[k].limit <= SMARTRECRUITERS_JOBS_ENDPOINT_LIMIT

-----------------------------------------------------------------------------
\* the ids of the detail requests among the first n requests, in order
RECURSIVE DetailsUpTo(_)
DetailsUpTo(n) ==
    IF n = 0 THEN <<>>
    ELSE DetailsUpTo(n - 1)
         \o (IF http[n].kind = "detail" THEN <<http[n].arg>> ELSE <<>>)

(* C7: the sequence is lazy.  Whenever the consumer is not inside next(),  *)
(* having taken k items, the successful detail requests are exactly those  *)
(* of the k items, the last request is the detail request of item k (none  *)
(* was sent for a later item or a later page), every listing answer        *)
(* received was needed for one of the k items, and nothing was sent before *)
(* the first next().  A consumer that stopped asking is in such a state    *)
(* for good.                                                               *)
C7_Lazy ==
    (Paginating /\ consumer \in {"idle", "holding", "stopped"}) =>
        LET k == Len(yielded) IN
        /\ DetailsUpTo(Len(http)) = [m \in 1..k |-> yielded[m].id]
        /\ k = 0 => http = <<>>
        /\ k > 0 =>
             /\ DetailOk(http[Len(http)])
             /\ http[Len(http)].arg = yielded[k].id
             /\ http[Len(http)].at = k - 1
        /\ Len(ListedUpTo(Len(http))) >= k
        /\ \A m \in 1..Len(http) :
             http[m].kind = "list" =>
                 /\ ListOk(http[m])
                 /\ Len(ListedUpTo(m - 1)) < k
                 /\ Len(ListedUpTo(m)) > Len(ListedUpTo(m - 1))

\* the consumer stopped after the last item of a first page, with more
\* pages to come
C7_Witness ==
    /\ Paginating
    /\ consumer = "stopped"
    /\ Len(yielded) = 2
    /\ Len(Listed) = 2
    /\ vendor.njobs = 3

-----------------------------------------------------------------------------
(* Vocabulary of the push properties *)

\* the POST of profile k of warehouse.write got a non-2xx status
PostFailed(k) == k <= Len(http) /\ Non2xx(http[k].status)

InSeq(x, seq) == \E m \in 1..Len(seq) : seq[m] = x

\* what warehouse.write returned
WriteOutput == failed_profiles

-----------------------------------------------------------------------------
-----------------------------------------------------------------------------
\* a create / update request answered with a non-2xx status
WriteCallFailed(r) == r.kind \in {"post", "put"} /\ Non2xx(r.status)

-----------------------------------------------------------------------------
\* the search finds the candidate; the PUT / POST requests of the run
Matched == vendor.candidate_list # <<>>

WriteRequests == {k \in 1..Len(http) : http[k].kind \in {"put", "post"}}

(* C10: BreezyHR upsert by lookup.  After a search that answered 2xx, the  *)
(* write request is a PUT against the id of the first matched candidate    *)
(* when the search returned a match, and a POST of the profile when it     *)
(* returned none; never both, and a push that returns in the matched case  *)
(* has updated the candidate: its PUT was answered 2xx and its last log    *)
(* record is the one of the update.                                        *)
C10_UpsertByLookup ==
    kind = "breezy" =>
        /\ Cardinality(WriteRequests) <= 1
        /\ \A k \in WriteRequests :
             /\ k > 1
             /\ http[k - 1].kind = "search"
             /\ ~Non2xx(http[k - 1].status)
             /\ http[k - 1].arg = profiles[prof_i].email
             /\ http[k - 1].company = http[k].company
             /\ Matched =>
                  /\ http[k].kind = "put"
                  /\ http[k].arg = vendor.candidate_list[1]._id
             /\ ~Matched =>
                  /\ http[k].kind = "post"
                  /\ http[k].arg = profiles[prof_i].email
        /\ pc = "returned" =>
             /\ WriteRequests = {Len(http)}
             /\ ~Non2xx(http[Len(http)].status)
             /\ Matched <=> http[Len(http)].kind = "put"
             /\ Matched <=> log[Len(log)].what = "update"

\* two candidates match; the first was updated
C10_Witness ==
    /\ kind = "breezy"
    /\ pc = "returned"
    /\ Len(vendor.candidate_list) = 2
    /\ http[Len(http)].kind = "put"
    /\ http[Len(http)].arg = "cand1"
    /\ self.company_name = "acme"

-----------------------------------------------------------------------------
\* a lookup (of the company, of the candidate) answered with a non-2xx status
LookupFailed(r) == r.kind \in {"companies", "search"} /\ Non2xx(r.status)

(* C11: in the BreezyHR push a lookup answered non-2xx is fatal: the push  *)
(* raises PushError with the status of that answer, the failed lookup is   *)
(* the last request, so neither a create nor an update is sent for that    *)
(* profile, and the profile is never passed over as if it had been pushed. *)
C11_LookupFailureIsFatal ==
    kind = "breezy" =>
        /\ \A k \in 1..Len(http) :
             LookupFailed(http[k]) =>
                 /\ k = Len(http)
                 /\ pc = "raised"
                 /\ err.type = "PushError"
                 /\ err.status = http[k].status
                 /\ WriteRequests = {}
        /\ \A n \in 1..Len(history) :
             \A k \in 1..Len(history[n]) : ~LookupFailed(history[n][k])

\* a batch of three: the first profile was pushed, the search of the second
\* failed and the push raised
C11_Witness ==
    /\ kind = "breezy"
    /\ Len(profiles) = 3
    /\ prof_i = 2
    /\ Len(history) = 1
    /\ http # <<>>
    /\ http[Len(http)].kind = "search"
    /\ LookupFailed(http[Len(http)])
    /\ pc = "raised"

-----------------------------------------------------------------------------
\* an association request answered with a non-2xx status
AssociateFailed(r) == r.kind = "associate" /\ Non2xx(r.status)

\* every request of the push so far, the earlier calls first
RECURSIVE Flat(_)
Flat(logs) == IF logs = <<>> THEN <<>> ELSE Head(logs) \o Flat(Tail(logs))

AllRequests == Flat(history) \o http

-----------------------------------------------------------------------------
\* the requests of BreezyHR that are scoped by a company id
CompanyScoped(r) == r.kind \in {"positions", "search", "put", "post"}

(* C13: BreezyHR company scoping.  No positions listing, candidate search, *)
(* create or update request is sent with an unresolved (None) company id:  *)
(* when no company of the answer has the configured name the operation     *)
(* has failed before any such request.                                     *)
C13_NoRequestWithoutCompany ==
    kind \in {"breezy", "breezy_pull"} =>
        \A k \in 1..Len(http) :
            CompanyScoped(http[k]) => http[k].company # None

-----------------------------------------------------------------------------
\* the requests of the given kinds, sent so far by the current call
RequestsOf(kinds) == {k \in 1..Len(http) : http[k].kind \in kinds}

\* no two requests of these kinds carry the same argument
NoRepeat(kinds) ==
    \A k, m \in RequestsOf(kinds) : http[k].arg = http[m].arg => k = m

(* C14: no request is retried.  Within one pull no listing cursor and no   *)
(* item id is requested twice; within one push at most one lookup and at   *)
(* most one create-or-update request is sent per profile, whatever the     *)
(* answers are.                                                            *)
C14_NoRetry ==
    /\ Paginating => NoRepeat({"list"}) /\ NoRepeat({"detail"})
    /\ kind = "write" =>
         /\ Len(http) <= Len(profiles)
         /\ \A k \in 1..Len(http) : http[k].arg = profiles[k].email
    /\ kind = "breezy" =>
         /\ Cardinality(RequestsOf({"search"})) <= 1
         /\ Cardinality(RequestsOf({"put", "post"})) <= 1
         /\ prof_i > 0 => Len(history) = prof_i - 1

-----------------------------------------------------------------------------
\* a job format function has returned
JobFormatted ==
    /\ kind = "format"
    /\ pc = "formatted"
    /\ data.source \in {"smartrecruiters", "taleez", "breezyhr"}

(* C15: whatever optional fields the raw record misses, the job format     *)
(* functions do not raise and the job they return has no tag and no        *)
(* section for a missing field: every tag has a non-null value and every   *)
(* section a non-null description.                                         *)
C15_NoTagForMissingField ==
    JobFormatted =>
        /\ err = NoError
        /\ \A k \in 1..Len(job_obj.tags) : job_obj.tags[k].value # PyNone
        /\ \A k \in 1..Len(job_obj.sections) :
             job_obj.sections[k].description # PyNone

-----------------------------------------------------------------------------
\* `out` is the number `raw` when raw is a number, and stays None otherwise
SameCoordinate(raw, out) ==
    IF raw = PyNone
    THEN out = PyNone
    ELSE out.t \in {"int", "float"} /\ out.v = raw.v

\* `out` is the number `raw`, or 0 when raw is None
ZeroForNone(raw, out) ==
    /\ out.t \in {"int", "float"}
    /\ raw = PyNone => out.v = 0

(* C16: coordinates.  On the read path the latitude / longitude of the job *)
(* are the vendor's number when the vendor sent one (as a float for        *)
(* SmartRecruiters) and None when it sent none, never 0 by default; on the *)
(* SmartRecruiters profile write path a None latitude / longitude is       *)
(* replaced by 0.                                                          *)
C16_CoordinatesNeverDefaultedOnRead ==
    (kind = "format" /\ pc = "formatted") =>
        /\ data.source = "smartrecruiters" =>
             /\ SameCoordinate(data.latitude, job_obj.location.lat)
             /\ SameCoordinate(data.longitude, job_obj.location.lng)
             /\ data.latitude # PyNone => job_obj.location.lat.t = "float"
             /\ data.longitude # PyNone => job_obj.location.lng.t = "float"
        /\ data.source = "taleez" =>
             /\ SameCoordinate(data.lat, job_obj.location.lat)
             /\ SameCoordinate(data.lng, job_obj.location.lng)
        /\ data.source = "breezyhr" =>
             /\ job_obj.location.lat = PyNone
             /\ job_obj.location.lng = PyNone
        /\ data.source = "profile" =>
             /\ ZeroForNone(data.lat, job_obj.location.lat)
             /\ ZeroForNone(data.lng, job_obj.location.lng)

\* a SmartRecruiters job with a longitude and no latitude has been formatted
C16_Witness ==
    /\ kind = "format"
    /\ pc = "formatted"
    /\ data.source = "smartrecruiters"
    /\ data.latitude = PyNone
    /\ data.longitude = PyInt(2)
    /\ job_obj.location = [lat |-> PyNone, lng |-> PyFloat(2)]

-----------------------------------------------------------------------------
\* the operation is over: it returned, raised, its sequence is exhausted or
\* its consumer walked away
Over ==
    \/ pc \in {"returned", "raised", "done"}
    \/ consumer \in {"stopped", "failed", "exhausted"}

(* C17: every HTTP session opened by a pull or a push is released on all   *)
(* exit paths: once the operation is over (it returned, it raised, the     *)
(* consumer abandoned the sequence) no session it opened is still open.    *)
C17_SessionReleased ==
    Over => session # "open"

-----------------------------------------------------------------------------
\* what the requests of one call ask for, in order
Kinds(requests) == [k \in 1..Len(requests) |-> requests[k].kind]

(* C18: no mutable state is shared across runs.  A second push on the same *)
(* action object that got the same answers as the first one (both          *)
(* returned) has sent the same sequence of requests as the first one: the  *)
(* first run left the fields of the action, company_id included, as they   *)
(* were.                                                                   *)
C18_RunsIssueSameRequests ==
    (kind = "breezy" /\ pc = "returned" /\ history # <<>>)
        => Kinds(http) = Kinds(history[1])

-----------------------------------------------------------------------------
\* the listing requests sent so far, and the one before request k
Listings == RequestsOf({"list"})

PreviousListing(k) ==
    CHOOSE p \in Listings :
        p < k /\ \A q \in Listings : q < k => q <= p

(* C19: cursor dependency.  The first listing request carries no page id,  *)
(* every later one carries the nextPageId of the answer to the listing     *)
(* request before it, and it is sent only after every item of that answer  *)
(* has been detail-fetched, in order, and yielded.                         *)
C19_CursorDependency ==
    Paginating =>
        \A k \in Listings :
            IF \A p \in Listings : p >= k
            THEN k = 1 /\ http[k].arg = None
            ELSE LET p == PreviousListing(k)
                     content == Answer(http[p]).content
                 IN  /\ ListOk(http[p])
                     /\ http[k].arg = Answer(http[p]).nextPageId
                     /\ k - p - 1 = Len(content)
                     /\ \A m \in 1..Len(content) :
                          /\ DetailOk(http[p + m])
                          /\ http[p + m].arg = content[m].id
                     /\ http[k].at = http[p].at + Len(content)

\* a third listing request was sent with the cursor of the second answer,
\* after the two items of the first two pages
C19_Witness ==
    /\ Paginating
    /\ Cardinality(Listings) = 3
    /\ http[Len(http)].kind = "list"
    /\ http[Len(http)].arg = Token(2)
    /\ http[Len(http)].at = 2

-----------------------------------------------------------------------------
\* the detail requests sent so far
Details == RequestsOf({"detail"})

(* C20: detail enrichment.  Each listed item gets exactly one detail       *)
(* request, keyed by its id and sent before the item is yielded; what is   *)
(* yielded is the body of the detail answer, never the reduced item of the *)
(* listing; and when the pull has ended without failure the detail         *)
(* requests are as many as the items yielded.                              *)
C20_DetailEnrichment ==
    Paginating =>
        /\ Cardinality({k \in Details : DetailOk(http[k])}) = Len(yielded)
        /\ \A k \in Details :
             LET m == Cardinality({q \in Details : q <= k}) IN
             /\ m <= Len(Listed)
             /\ http[k].arg = Listed[m].id
             /\ http[k].at = m - 1
             /\ DetailOk(http[k]) =>
                  /\ yielded[m].id = http[k].arg
                  /\ yielded[m].full
             /\ DetailFailed(http[k]) =>
                  /\ k = Len(http)
                  /\ consumer = "failed"
        /\ consumer = "exhausted" =>
             /\ Cardinality(Details) = Len(yielded)
             /\ Len(yielded) = Len(Listed)

\* a pull of three items over two pages has ended
C20_Witness ==
    /\ Paginating
    /\ consumer = "exhausted"
    /\ Cardinality(Details) = 3
    /\ Cardinality(Listings) = 3
    /\ \A m \in 1..3 : yielded[m] = [id |-> JobId(m), full |-> TRUE]

-----------------------------------------------------------------------------
\* the profiles among the first n whose POST got a non-2xx status, in input
\* order
RECURSIVE FailedUpTo(_)
FailedUpTo(n) ==
    IF n = 0 THEN <<>>
    ELSE FailedUpTo(n - 1)
         \o (IF PostFailed(n) THEN <<profiles[n]>> ELSE <<>>)

(* C21: warehouse.write sends exactly one POST per input profile, in input *)
(* order, and what it returns is exactly the sub-sequence of the input     *)
(* profiles whose POST got a non-2xx status, in input order; it is empty   *)
(* exactly when every POST succeeded.                                      *)
C21_WriteReturnsFailedSubsequence ==
    kind = "write" =>
        /\ Len(http) = prof_i
        /\ \A k \in 1..Len(http) :
             /\ http[k].kind = "post"
             /\ http[k].arg = profiles[k].email
        /\ failed_profiles = FailedUpTo(Len(http))
        /\ pc = "returned" =>
             /\ Len(http) = Len(profiles)
             /\ WriteOutput = FailedUpTo(Len(profiles))
             /\ WriteOutput = <<>>
                  <=> \A k \in 1..Len(profiles) : ~PostFailed(k)

\* the first and the third POST of three failed: the two profiles are
\* returned, in that order
C21_Witness ==
    /\ kind = "write"
    /\ pc = "returned"
    /\ Len(profiles) = 3
    /\ WriteOutput = <<profiles[1], profiles[3]>>

-----------------------------------------------------------------------------
(* The run the vendor's answers dictate to a paginator, whichever it is *)

NoRequest == [kind |-> "none"]

\* the request that has to follow the first n requests and their answers:
\* the first listing, the detail of the next item of the page, the listing
\* of the next page; none after a failure and after an empty page
Dictated(n) ==
    IF n = 0 THEN [kind |-> "list", arg |-> None, at |-> 0]
    ELSE IF Non2xx(http[n].status) THEN NoRequest
    ELSE IF http[n].kind = "list"
    THEN IF Answer(http[n]).content = <<>> THEN NoRequest
         ELSE [kind |-> "detail", arg |-> Answer(http[n]).content[1].id,
               at |-> http[n].at]
    ELSE LET p == PreviousListing(n)
             content == Answer(http[p]).content
         IN  IF n - p < Len(content)
             THEN [kind |-> "detail", arg |-> content[n - p + 1].id,
                   at |-> http[n].at + 1]
             ELSE [kind |-> "list", arg |-> Answer(http[p]).nextPageId,
                   at |-> http[n].at + 1]

\* the records the successful detail requests among the first n returned
RECURSIVE DetailBodiesUpTo(_)
DetailBodiesUpTo(n) ==
    IF n = 0 THEN <<>>
    ELSE DetailBodiesUpTo(n - 1)
         \o (IF DetailOk(http[n])
             THEN <<[id |-> http[n].arg, full |-> TRUE]>>
             ELSE <<>>)

\* a step of either paginator's code
PaginatorStep ==
    \/ ReadStart
    \/ ReadList
    \/ ReadDetail
    \/ ReadResume
    \/ PullGetPage
    \/ PullChain
    \/ PullGetFullJob

-----------------------------------------------------------------------------
\* the requests of one call of the BreezyHR push follow the protocol
BreezyProtocol ==
    LET n == Len(http)
        first == IF n > 0 /\ http[1].kind = "companies" THEN 2 ELSE 1
    IN  /\ n <= first + 1
        /\ \A k \in 1..n :
             /\ http[k].kind \in {"companies", "search", "put", "post"}
             /\ http[k].kind = "companies" => k = 1
             /\ http[k].kind = "search" => k = first
             /\ http[k].kind \in {"put", "post"} =>
                  /\ k = first + 1
                  /\ http[k - 1].kind = "search"
                  /\ ~Non2xx(http[k - 1].status)
             /\ Non2xx(http[k].status) =>
                  /\ k = n
                  /\ pc = "raised"
                  /\ err.type = "PushError"
        /\ pc = "raised" => (n > 0 /\ Non2xx(http[n].status))
        /\ pc = "returned" =>
             /\ n = first + 1
             /\ http[n].kind \in {"put", "post"}

\* the request this step sends, if it sends one
Sends(what) ==
    /\ Len(http') = Len(http) + 1
    /\ http'[Len(http')].kind = what

(* C23: BreezyHR push request protocol.  In every call the requests are    *)
(* the company lookup (sent if and only if company_id is None when the     *)
(* call is made), then the candidate search, then exactly one of PUT and   *)
(* POST; a PUT / POST is sent only after the search was answered 2xx,      *)
(* never both, and any non-2xx answer ends the call with PushError and no  *)
(* later request.                                                          *)
C23_PushProtocol ==
    [][kind = "breezy" =>
          /\ BreezyProtocol'
          /\ Sends("companies") => self.company_id = None
          /\ (Sends("search") /\ http = <<>>) => self.company_id # None
      ]_vars

\* a call that looked the company up, found the candidate and updated it
C23_Witness ==
    /\ kind = "breezy"
    /\ pc = "returned"
    /\ Kinds(http) = <<"companies", "search", "put">>

=============================================================================
